---- MODULE Spec2Model ----
(***************************************************************************)
(* A model of po-translate (src/po_translate.py): the .po escape codec,    *)
(* the .po and Qt .ts adapters, and the batch driver translate_file.       *)
(*                                                                         *)
(* Strings are sequences of characters.  The characters that the code      *)
(* treats specially are named BS (backslash), QT (double quote), NL        *)
(* (newline), TAB, SP (space) and CM (comma); every other character is an  *)
(* ordinary one ("a", "n", "t", "x", ...).                                 *)
(***************************************************************************)
EXTENDS Integers, Sequences, FiniteSets, TLC

VARIABLES
    codec,            \* the escape codec applied to one string
    po,               \* POFile parse / save / parse applied to one document
    ext,              \* translate_file: suffix of filepath ("po" or "ts")
    disk,             \* translate_file: content of the file on disk
    disk0,            \* content of the file when translate_file was called
    tree,             \* TSFile.tree (the parsed XML tree; <<>> for a POFile)
    entries,          \* po_file.entries
    untranslated,     \* translate_file: untranslated (references into entries)
    batch_size,       \* translate_file: batch_size
    dry_run,          \* translate_file: dry_run
    pc,               \* translate_file: position in the function
    i,                \* translate_file: loop variable i
    calls,            \* translator.translate_batch calls made: texts and results
    translated_count, \* translate_file: translated_count
    saves,            \* number of po_file.save() calls
    result,           \* the dict translate_file returned
    events,           \* translate_file: backend calls, assignments, pauses, save
    main,             \* the loop over the files in main
    tb,               \* one translate_batch call of a Translator
    ts,               \* TSFile._parse applied to one XML tree
    xlf               \* XLIFFFile: parse, assign, save, parse again

driverVars == <<ext, disk, disk0, tree, entries, untranslated, batch_size, dry_run,
                pc, i, calls, translated_count, saves, result, events>>
auxVars == <<main, tb, ts, xlf>>
vars == <<codec, po, ext, disk, disk0, tree, entries, untranslated, batch_size,
          dry_run, pc, i, calls, translated_count, saves, result, events,
          main, tb, ts, xlf>>

(***************************************************************************)
(* Bounds                                                                  *)
(***************************************************************************)
MaxUnits == 3      \* longest string given to the codec, in characters/escapes
MaxBlocks == 2     \* most blocks of a .po document given to parse/save/parse
MaxEntries == 3    \* most blocks / messages of a file given to translate_file
MaxBatch == 2      \* largest batch_size

(***************************************************************************)
(* Characters                                                              *)
(***************************************************************************)
BS == "BS"
QT == "QT"
NL == "NL"
TAB == "TAB"
SP == "SP"
CM == "CM"

Min(a, b) == IF a < b THEN a ELSE b

(***************************************************************************)
(* str.replace(old, new): left to right, non-overlapping, one pass.        *)
(***************************************************************************)
RECURSIVE StrReplace(_, _, _)
StrReplace(s, old, new) ==
    IF Len(s) < Len(old) THEN s
    ELSE IF SubSeq(s, 1, Len(old)) = old
         THEN new \o StrReplace(SubSeq(s, Len(old) + 1, Len(s)), old, new)
         ELSE <<s[1]>> \o StrReplace(Tail(s), old, new)

\* str.strip() of spaces
RECURSIVE LStrip(_)
LStrip(s) == IF s # <<>> /\ s[1] = SP THEN LStrip(Tail(s)) ELSE s

RECURSIVE RStrip(_)
RStrip(s) ==
    IF s # <<>> /\ s[Len(s)] = SP THEN RStrip(SubSeq(s, 1, Len(s) - 1)) ELSE s

Strip(s) == LStrip(RStrip(s))

\* str.split(sep) for a one-character separator
RECURSIVE Split(_, _)
Split(s, sep) ==
    IF \A k \in 1..Len(s) : s[k] # sep THEN <<s>>
    ELSE LET k == CHOOSE k \in 1..Len(s) :
                      s[k] = sep /\ \A j \in 1..(k - 1) : s[j] # sep
         IN  <<SubSeq(s, 1, k - 1)>> \o Split(SubSeq(s, k + 1, Len(s)), sep)

\* sep.join(parts)
RECURSIVE Join(_, _)
Join(parts, sep) ==
    IF parts = <<>> THEN <<>>
    ELSE IF Len(parts) = 1 THEN parts[1]
    ELSE parts[1] \o sep \o Join(Tail(parts), sep)

(***************************************************************************)
(* POFile._unescape and POFile._escape                                     *)
(***************************************************************************)
unescape(s) ==
    StrReplace(StrReplace(StrReplace(StrReplace(s,
        <<BS, "n">>, <<NL>>), <<BS, "t">>, <<TAB>>), <<BS, QT>>, <<QT>>),
        <<BS, BS>>, <<BS>>)

escape(s) ==
    StrReplace(StrReplace(StrReplace(StrReplace(s,
        <<BS>>, <<BS, BS>>), <<QT>>, <<BS, QT>>), <<NL>>, <<BS, "n">>),
        <<TAB>>, <<BS, "t">>)

(***************************************************************************)
(* Inputs of the codec                                                     *)
(***************************************************************************)
\* the units of a well-formed on-disk string: ordinary characters and the
\* four escape sequences
RawUnits == {<<"a">>, <<"n">>, <<"t">>,
             <<BS, "n">>, <<BS, "t">>, <<BS, QT>>, <<BS, BS>>}

\* the characters of a logical string
LogicalChars == {<<"a">>, <<"n">>, <<"t">>, <<BS>>, <<QT>>, <<NL>>, <<TAB>>}

RECURSIVE Concats(_, _)
Concats(units, k) ==
    IF k = 0 THEN {<<>>}
    ELSE LET shorter == Concats(units, k - 1)
         IN  shorter \cup {u \o w : u \in units, w \in shorter}

WellFormedRaw == Concats(RawUnits, MaxUnits)
LogicalStrings == Concats(LogicalChars, MaxUnits)

(***************************************************************************)
(* TranslationEntry.  elem is the _message_elem attribute TSFile._parse    *)
(* adds (the position of the message element in the tree); 0 stands for    *)
(* an entry without that attribute.                                        *)
(***************************************************************************)
Fuzzy == <<"fuzzy">>
Unfinished == <<"unfinished">>

TranslationEntry(msgid, msgstr, msgctxt, comments, flags, elem) ==
    [msgid |-> msgid, msgstr |-> msgstr, msgctxt |-> msgctxt,
     comments |-> comments, flags |-> flags, elem |-> elem]

HasFlag(e, f) == \E k \in 1..Len(e.flags) : e.flags[k] = f

needs_translation_ignores_fuzzy(e) ==
    IF e.msgid = <<>> THEN FALSE
    ELSE IF e.msgstr # <<>> THEN FALSE
    ELSE TRUE

needs_translation(e) ==
    IF e.msgid = <<>> THEN FALSE
    ELSE IF e.msgstr # <<>> THEN FALSE
    ELSE IF HasFlag(e, Fuzzy) THEN FALSE
    ELSE TRUE

(***************************************************************************)
(* A .po document is a sequence of blocks (the pieces between runs of      *)
(* blank lines); a block is a sequence of stripped lines.  A line is       *)
(*   comment : starts with '#' but not with '#,'    (text: the line)       *)
(*   flags   : starts with '#,'                     (text: what follows)   *)
(*   key     : a keyword, an optional [N] suffix and a quoted string       *)
(*                                                  (text: quoted content) *)
(*   cont    : a bare quoted string                 (text: quoted content) *)
(* Any other line leaves the entry as it is.                               *)
(***************************************************************************)
Line(k, key, suffix, text) ==
    [k |-> k, key |-> key, suffix |-> suffix, text |-> text]

CommentLine(text) == Line("comment", "", "", text)
FlagsLine(text) == Line("flags", "", "", text)
KeyLine(key, suffix, raw) == Line("key", key, suffix, raw)
ContLine(raw) == Line("cont", "", "", raw)

NoKey == [key |-> "None", suffix |-> ""]

\* line 96-97: line[2:].strip().split(','), each flag stripped
ParseFlags(text) ==
    LET parts == Split(Strip(text), CM)
    IN  [k \in 1..Len(parts) |-> Strip(parts[k])]

\* one iteration of the loop over the lines of a block (lines 89-130);
\* st is the entry built so far and current_key
ParseLine(st, line) ==
    LET value == unescape(line.text)
        cur == [key |-> line.key, suffix |-> line.suffix]
    IN  IF line.k = "comment"
        THEN [st EXCEPT !.entry.comments = Append(@, line.text)]
        ELSE IF line.k = "flags"
        THEN [st EXCEPT !.entry.flags = ParseFlags(line.text)]
        ELSE IF line.k = "key"
        THEN \* 'msgid_plural "..."' starts with 'msgid', the regular
             \* expression for msgid does not match it, and the loop breaks
             IF line.key = "msgid"
             THEN [entry |-> [st.entry EXCEPT !.msgid = value], current_key |-> cur]
             ELSE IF line.key = "msgstr"
             THEN [entry |-> [st.entry EXCEPT !.msgstr = value], current_key |-> cur]
             ELSE IF line.key = "msgctxt"
             THEN [entry |-> [st.entry EXCEPT !.msgctxt = value], current_key |-> cur]
             ELSE st
        ELSE IF line.k = "cont" /\ st.current_key # NoKey
        THEN IF st.current_key = [key |-> "msgid", suffix |-> ""]
             THEN [st EXCEPT !.entry.msgid = @ \o value]
             ELSE IF st.current_key = [key |-> "msgstr", suffix |-> ""]
             THEN [st EXCEPT !.entry.msgstr = @ \o value]
             ELSE IF st.current_key = [key |-> "msgctxt", suffix |-> ""]
             THEN [st EXCEPT !.entry.msgctxt = @ \o value]
             ELSE st
        ELSE st

RECURSIVE ParseLines(_, _)
ParseLines(st, lines) ==
    IF lines = <<>> THEN st
    ELSE ParseLines(ParseLine(st, Head(lines)), Tail(lines))

\* POFile._parse_block: <<entry>>, or <<>> for None
parse_block(block) ==
    LET st == ParseLines([entry |-> TranslationEntry(<<>>, <<>>, <<>>, <<>>, <<>>, 0),
                          current_key |-> NoKey], block)
    IN  IF st.entry.msgid # <<>> \/ st.entry.msgstr # <<>>
        THEN <<st.entry>> ELSE <<>>

\* POFile._parse: the entries of the blocks, in order
RECURSIVE POParse(_)
POParse(doc) ==
    IF doc = <<>> THEN <<>>
    ELSE IF Head(doc) = <<>> THEN POParse(Tail(doc))
    ELSE parse_block(Head(doc)) \o POParse(Tail(doc))

\* the lines POFile.save emits for one entry (lines 153-171)
save_entry(e) ==
    [k \in 1..Len(e.comments) |-> CommentLine(e.comments[k])]
    \o (IF e.flags # <<>>
        THEN <<FlagsLine(<<SP>> \o Join(e.flags, <<CM, SP>>))>> ELSE <<>>)
    \o (IF e.msgctxt # <<>>
        THEN <<KeyLine("msgctxt", "", escape(e.msgctxt))>> ELSE <<>>)
    \o <<KeyLine("msgid", "", escape(e.msgid)),
         KeyLine("msgstr", "", escape(e.msgstr))>>

\* POFile.save: one block per entry, in order
POSave(es) == [k \in 1..Len(es) |-> save_entry(es[k])]

(***************************************************************************)
(* Documents given to parse / save / parse                                 *)
(***************************************************************************)
RawSamples == {<<>>, <<"a">>, <<BS, "n">>, <<BS, BS, "n">>, <<BS, QT>>}

FlagTexts == {<<SP, "fuzzy">>, <<"fuzzy", CM, "c">>, <<>>}

\* an id line and a translation line, every pair of sample strings
PayloadBlocks ==
    {<<KeyLine("msgid", "", r1), KeyLine("msgstr", "", r2)>> :
        r1 \in RawSamples, r2 \in RawSamples}

\* comments, flags and context around a fixed payload
StructureBlocks ==
    {c \o f \o x \o <<KeyLine("msgid", "", <<"a">>), KeyLine("msgstr", "", <<>>)>> :
        c \in {<<>>, <<CommentLine("# c")>>},
        f \in {<<>>} \cup {<<FlagsLine(t)>> : t \in FlagTexts},
        x \in {<<>>, <<KeyLine("msgctxt", "", <<"m">>)>>}}

\* continuation lines, plural forms, an obsolete entry, an empty block
OddBlocks ==
    {<<>>,
     <<KeyLine("msgid", "", <<>>), KeyLine("msgstr", "", <<>>),
       ContLine(<<"a", BS, "n">>), ContLine(<<"t">>)>>,
     <<KeyLine("msgid", "", <<>>), ContLine(<<"a", BS, BS>>), ContLine(<<"n">>),
       KeyLine("msgstr", "", <<"x">>)>>,
     <<KeyLine("msgid", "", <<"a">>), KeyLine("msgid_plural", "", <<"t">>),
       ContLine(<<"n">>), KeyLine("msgstr", "[0]", <<"x">>),
       KeyLine("msgstr", "[1]", <<"t">>), ContLine(<<"a">>)>>,
     <<CommentLine("# c"), FlagsLine(<<"c">>),
       FlagsLine(<<SP, "fuzzy", CM, CM, SP, "c">>),
       KeyLine("msgctxt", "", <<"m">>), ContLine(<<"n">>),
       KeyLine("msgid", "", <<"a">>), KeyLine("msgstr", "", <<"x">>)>>,
     <<CommentLine("#~ old")>>}

PoBlocks == PayloadBlocks \cup StructureBlocks \cup OddBlocks

RECURSIVE SeqsUpTo(_, _)
SeqsUpTo(S, n) ==
    IF n = 0 THEN {<<>>}
    ELSE LET shorter == SeqsUpTo(S, n - 1)
         IN  shorter \cup {<<x>> \o w : x \in S, w \in {v \in shorter : Len(v) = n - 1}}

PoDocs == SeqsUpTo(PoBlocks, MaxBlocks)

(***************************************************************************)
(* The variables of the specifications that are not running                *)
(***************************************************************************)
CodecIdle == [pc |-> "idle", x |-> <<>>, y |-> <<>>, z |-> <<>>]

PoIdle == [pc |-> "idle", doc |-> <<>>, parsed |-> <<>>, saved |-> <<>>,
           reparsed |-> <<>>]

NoResult == [returned |-> FALSE, translated |-> 0, total |-> 0]

DriverIdle ==
    /\ ext = "none"
    /\ disk = <<>>
    /\ disk0 = <<>>
    /\ tree = <<>>
    /\ entries = <<>>
    /\ untranslated = <<>>
    /\ batch_size = 1
    /\ dry_run = FALSE
    /\ pc = "idle"
    /\ i = 0
    /\ calls = <<>>
    /\ translated_count = 0
    /\ saves = 0
    /\ result = NoResult
    /\ events = <<>>

MainIdle == [pc |-> "idle"]
TbIdle == [pc |-> "idle"]
TsIdle == [pc |-> "idle"]
XlfIdle == [pc |-> "idle"]

AuxIdle ==
    /\ main = MainIdle
    /\ tb = TbIdle
    /\ ts = TsIdle
    /\ xlf = XlfIdle

(***************************************************************************)
(* SpecCodec: the codec applied to one string, in both orders              *)
(***************************************************************************)
CodecInit ==
    /\ codec \in {[pc |-> "raw", x |-> s, y |-> <<>>, z |-> <<>>] :
                     s \in WellFormedRaw}
            \cup {[pc |-> "logical", x |-> s, y |-> <<>>, z |-> <<>>] :
                     s \in LogicalStrings}
    /\ po = PoIdle
    /\ DriverIdle
    /\ AuxIdle

\* y = _unescape(x) for an on-disk string x
UnescapeRaw ==
    /\ codec.pc = "raw"
    /\ codec' = [codec EXCEPT !.pc = "unescaped", !.y = unescape(codec.x)]
    /\ UNCHANGED <<po, driverVars, auxVars>>

\* z = _escape(y)
EscapeBack ==
    /\ codec.pc = "unescaped"
    /\ codec' = [codec EXCEPT !.pc = "raw_round_trip", !.z = escape(codec.y)]
    /\ UNCHANGED <<po, driverVars, auxVars>>

\* y = _escape(x) for a logical string x
EscapeLogical ==
    /\ codec.pc = "logical"
    /\ codec' = [codec EXCEPT !.pc = "escaped", !.y = escape(codec.x)]
    /\ UNCHANGED <<po, driverVars, auxVars>>

\* z = _unescape(y)
UnescapeBack ==
    /\ codec.pc = "escaped"
    /\ codec' = [codec EXCEPT !.pc = "logical_round_trip", !.z = unescape(codec.y)]
    /\ UNCHANGED <<po, driverVars, auxVars>>

CodecNext == UnescapeRaw \/ EscapeBack \/ EscapeLogical \/ UnescapeBack

SpecCodec == CodecInit /\ [][CodecNext]_vars

(***************************************************************************)
(* SpecPO: POFile(x), save(), POFile(saved file)                           *)
(***************************************************************************)
PoInit ==
    /\ po \in {[pc |-> "file", doc |-> d, parsed |-> <<>>, saved |-> <<>>,
                reparsed |-> <<>>] : d \in PoDocs}
    /\ codec = CodecIdle
    /\ DriverIdle
    /\ AuxIdle

PoParse ==
    /\ po.pc = "file"
    /\ po' = [po EXCEPT !.pc = "parsed", !.parsed = POParse(po.doc)]
    /\ UNCHANGED <<codec, driverVars, auxVars>>

PoSave ==
    /\ po.pc = "parsed"
    /\ po' = [po EXCEPT !.pc = "saved", !.saved = POSave(po.parsed)]
    /\ UNCHANGED <<codec, driverVars, auxVars>>

PoReparse ==
    /\ po.pc = "saved"
    /\ po' = [po EXCEPT !.pc = "reparsed", !.reparsed = POParse(po.saved)]
    /\ UNCHANGED <<codec, driverVars, auxVars>>

PoNext == PoParse \/ PoSave \/ PoReparse

SpecPO == PoInit /\ [][PoNext]_vars

(***************************************************************************)
(* POFile.get_untranslated: references to the entries, in order            *)
(***************************************************************************)
Indices(es) == [k \in 1..Len(es) |-> k]

POGetUntranslated(es) ==
    SelectSeq(Indices(es), LAMBDA k : needs_translation(es[k]))

(***************************************************************************)
(* A .ts document is the sequence of its message elements in the order     *)
(* TSFile._parse visits them.  ctx is the text of the name element of the  *)
(* enclosing context, source the text of the source element (<<>> when     *)
(* there is none), hasTr whether there is a translation element, text its  *)
(* text and type its type attribute ("none" when absent).                  *)
(***************************************************************************)
Message(ctx, source, hasTr, text, type) ==
    [ctx |-> ctx, source |-> source, hasTr |-> hasTr, text |-> text,
     type |-> type]

\* TSFile._parse, lines 196-215
TSParse(doc) ==
    [k \in 1..Len(doc) |->
        TranslationEntry(doc[k].source,
                         IF doc[k].hasTr THEN doc[k].text ELSE <<>>,
                         doc[k].ctx,
                         <<>>,
                         IF doc[k].hasTr /\ doc[k].type = "unfinished"
                         THEN <<Unfinished>> ELSE <<>>,
                         k)]

TSGetUntranslated_needs_only(es) ==
    SelectSeq(Indices(es), LAMBDA k : needs_translation(es[k]))

\* TSFile.get_untranslated
TSGetUntranslated(es) ==
    SelectSeq(Indices(es),
              LAMBDA k : needs_translation(es[k]) \/ HasFlag(es[k], Unfinished))

TSSaveEntry_keeps_type(tr, e) ==
    IF e.elem # 0 /\ tr[e.elem].hasTr
    THEN [tr EXCEPT ![e.elem].text = e.msgstr]
    ELSE tr

\* one iteration of the loop of TSFile.save, lines 226-233
TSSaveEntry(tr, e) ==
    IF e.elem # 0 /\ tr[e.elem].hasTr
    THEN [tr EXCEPT ![e.elem].text = e.msgstr,
                    ![e.elem].type = IF e.msgstr # <<>> THEN "none" ELSE @]
    ELSE tr

\* TSFile.save: the tree after the loop, which tree.write puts on disk
RECURSIVE TSSave(_, _)
TSSave(tr, es) ==
    IF es = <<>> THEN tr
    ELSE TSSave(TSSaveEntry(tr, Head(es)), Tail(es))

(***************************************************************************)
(* Files given to translate_file                                           *)
(***************************************************************************)
DriverBlocks ==
    {<<KeyLine("msgid", "", <<>>), KeyLine("msgstr", "", <<"h">>)>>,
     <<KeyLine("msgid", "", <<"a">>), KeyLine("msgstr", "", <<>>)>>,
     <<KeyLine("msgid", "", <<"x">>), KeyLine("msgstr", "", <<>>)>>,
     <<CommentLine("# c"), KeyLine("msgctxt", "", <<"m">>),
       KeyLine("msgid", "", <<"a", BS, "t">>), KeyLine("msgstr", "", <<"y">>)>>,
     <<FlagsLine(<<SP, "fuzzy">>), KeyLine("msgid", "", <<"a">>),
       KeyLine("msgstr", "", <<>>)>>}

DriverMessages ==
    {Message(<<"c">>, <<"a">>, TRUE, <<>>, "unfinished"),
     Message(<<"c">>, <<"a">>, TRUE, <<"y">>, "none"),
     Message(<<>>, <<"x">>, TRUE, <<"y">>, "unfinished"),
     Message(<<"c">>, <<"a">>, FALSE, <<>>, "none"),
     Message(<<"c">>, <<"a">>, TRUE, <<"y">>, "obsolete"),
     Message(<<"c">>, <<>>, TRUE, <<>>, "unfinished")}

\* what the backend may return for one text
Translations == {<<"x">>, <<>>}

\* the lists translate_batch may return for a list of m texts: fewer, as
\* many or one more
Responses(m) ==
    UNION {[1..n -> Translations] : n \in 0..(m + 1)}

(***************************************************************************)
(* translate_file                                                          *)
(***************************************************************************)
Parse(e, d) == IF e = "po" THEN POParse(d) ELSE TSParse(d)

GetUntranslated(e, es) ==
    IF e = "po" THEN POGetUntranslated(es) ELSE TSGetUntranslated(es)

\* untranslated[i:i + batch_size]
BatchAt_short(unt, from, size) ==
    SubSeq(unt, from + 1, Min(from + size, Len(unt) - 1))

BatchAt(unt, from, size) ==
    SubSeq(unt, from + 1, Min(from + size, Len(unt)))

\* texts = [e.msgid for e in batch]
Texts(es, batch) == [k \in 1..Len(batch) |-> es[batch[k]].msgid]

Assign_shifted(es, batch, translations) ==
    [k \in 1..Len(es) |->
        IF \E j \in 1..Min(Len(batch), Len(translations)) : batch[j] = k
        THEN [es[k] EXCEPT !.msgstr = translations[Len(translations)]]
        ELSE es[k]]

\* for entry, translation in zip(batch, translations): entry.msgstr = translation
Assign(es, batch, translations) ==
    [k \in 1..Len(es) |->
        IF \E j \in 1..Min(Len(batch), Len(translations)) : batch[j] = k
        THEN LET j == CHOOSE j \in 1..Min(Len(batch), Len(translations)) :
                          batch[j] = k
             IN  [es[k] EXCEPT !.msgstr = translations[j]]
        ELSE es[k]]

Report(translated, total) ==
    [returned |-> TRUE, translated |-> translated, total |-> total]

DriverInit ==
    /\ ext \in {"po", "ts"}
    /\ disk \in IF ext = "po" THEN SeqsUpTo(DriverBlocks, MaxEntries)
                ELSE SeqsUpTo(DriverMessages, MaxEntries)
    /\ disk0 = disk
    /\ batch_size \in 1..MaxBatch
    /\ dry_run \in BOOLEAN
    /\ tree = <<>>
    /\ entries = <<>>
    /\ untranslated = <<>>
    /\ pc = "start"
    /\ i = 0
    /\ calls = <<>>
    /\ translated_count = 0
    /\ saves = 0
    /\ result = NoResult
    /\ events = <<>>
    /\ codec = CodecIdle
    /\ po = PoIdle
    /\ AuxIdle

ParseFile_never_returns_early ==
    /\ pc = "start"
    /\ entries' = Parse(ext, disk)
    /\ tree' = IF ext = "ts" THEN disk ELSE <<>>
    /\ untranslated' = GetUntranslated(ext, entries')
    /\ pc' = IF untranslated' = <<>> THEN "save" ELSE "batch"
    /\ UNCHANGED <<auxVars, codec, po, ext, disk, disk0, batch_size, dry_run, i, calls,
                   translated_count, saves, result, events>>

\* lines 657-682: parse the file, collect the untranslated entries, return
\* at once when there are none
ParseFile ==
    /\ pc = "start"
    /\ entries' = Parse(ext, disk)
    /\ tree' = IF ext = "ts" THEN disk ELSE <<>>
    /\ untranslated' = GetUntranslated(ext, entries')
    /\ IF untranslated' = <<>>
       THEN /\ result' = Report(0, Len(entries'))
            /\ pc' = "done"
       ELSE /\ result' = result
            /\ pc' = "batch"
    /\ UNCHANGED <<auxVars, codec, po, ext, disk, disk0, batch_size, dry_run, i, calls,
                   translated_count, saves, events>>

Pause_after_every_group(j, size, n) == <<"pause">>

\* lines 713-714: time.sleep(0.5) unless this was the last group
Pause(j, size, n) == IF j + size < n THEN <<"pause">> ELSE <<>>

\* lines 684-714: one iteration of the loop, translate_batch returning
TranslateBatch ==
    /\ pc = "batch"
    /\ LET batch == BatchAt(untranslated, i, batch_size)
           texts == Texts(entries, batch)
       IN  \E translations \in Responses(Len(texts)) :
              /\ calls' = Append(calls, [texts |-> texts,
                                         translations |-> translations,
                                         raised |-> FALSE])
              /\ entries' = Assign(entries, batch, translations)
              /\ translated_count' = translated_count
                                     + Min(Len(batch), Len(translations))
    /\ events' = events \o <<"call", "assign">>
                         \o Pause(i, batch_size, Len(untranslated))
    /\ i' = i + batch_size
    /\ pc' = IF i + batch_size < Len(untranslated) THEN "batch" ELSE "save"
    /\ UNCHANGED <<auxVars, codec, po, ext, disk, disk0, tree, untranslated, batch_size,
                   dry_run, saves, result>>

TranslateBatchRaises_saves ==
    /\ pc = "batch"
    /\ calls' = Append(calls,
                       [texts |-> Texts(entries, BatchAt(untranslated, i, batch_size)),
                        translations |-> <<>>,
                        raised |-> TRUE])
    /\ events' = events \o <<"call", "save">>
    /\ tree' = IF ext = "ts" THEN TSSave(tree, entries) ELSE tree
    /\ disk' = IF ext = "ts" THEN tree' ELSE POSave(entries)
    /\ saves' = saves + 1
    /\ pc' = "raised"
    /\ UNCHANGED <<auxVars, codec, po, ext, disk0, entries, untranslated,
                   batch_size, dry_run, i, translated_count, result>>

\* line 696 raising: the exception leaves translate_file
TranslateBatchRaises ==
    /\ pc = "batch"
    /\ calls' = Append(calls,
                       [texts |-> Texts(entries, BatchAt(untranslated, i, batch_size)),
                        translations |-> <<>>,
                        raised |-> TRUE])
    /\ events' = Append(events, "call")
    /\ pc' = "raised"
    /\ UNCHANGED <<auxVars, codec, po, ext, disk, disk0, tree, entries, untranslated,
                   batch_size, dry_run, i, translated_count, saves, result>>

SaveFile_always_saves ==
    /\ pc = "save"
    /\ tree' = IF ext = "ts" THEN TSSave(tree, entries) ELSE tree
    /\ disk' = IF ext = "ts" THEN tree' ELSE POSave(entries)
    /\ saves' = saves + 1
    /\ events' = Append(events, "save")
    /\ result' = Report(translated_count, Len(entries))
    /\ pc' = "done"
    /\ UNCHANGED <<auxVars, codec, po, ext, disk0, entries, untranslated, batch_size,
                   dry_run, i, calls, translated_count>>

\* lines 716-737: save unless dry_run, return the counts
SaveFile ==
    /\ pc = "save"
    /\ IF ~dry_run
       THEN /\ tree' = IF ext = "ts" THEN TSSave(tree, entries) ELSE tree
            /\ disk' = IF ext = "ts" THEN tree' ELSE POSave(entries)
            /\ saves' = saves + 1
            /\ events' = Append(events, "save")
       ELSE UNCHANGED <<tree, disk, saves, events>>
    /\ result' = Report(translated_count, Len(entries))
    /\ pc' = "done"
    /\ UNCHANGED <<auxVars, codec, po, ext, disk0, entries, untranslated, batch_size,
                   dry_run, i, calls, translated_count>>

Next == ParseFile \/ TranslateBatch \/ TranslateBatchRaises \/ SaveFile

Spec == DriverInit /\ [][Next]_vars

(***************************************************************************)
(* C1: a run over N >= 1 untranslated entries with batch size B makes      *)
(* ceil(N/B) translate_batch calls, and the k-th call is given the msgids  *)
(* of the untranslated entries (k-1)*B+1 .. min(k*B, N), in order.         *)
(***************************************************************************)
C1_BatchCalls ==
    (pc \in {"save", "done"} /\ untranslated # <<>>) =>
        LET N == Len(untranslated)
            B == batch_size
        IN  /\ (Len(calls) - 1) * B < N
            /\ N <= Len(calls) * B
            /\ \A k \in 1..Len(calls) :
                  /\ Len(calls[k].texts) = Min(k * B, N) - (k - 1) * B
                  /\ \A j \in 1..Len(calls[k].texts) :
                        calls[k].texts[j]
                            = entries[untranslated[(k - 1) * B + j]].msgid

\* three untranslated entries in groups of two: a full group and a smaller
\* last one
C1_Witness ==
    /\ pc = "done"
    /\ Len(untranslated) = 3
    /\ batch_size = 2
    /\ Len(calls) = 2
    /\ Len(calls[2].texts) = 1

(***************************************************************************)
(* C2: when translate_file returns, every untranslated entry has a         *)
(* non-empty msgstr, and an entry for whose position the backend returned  *)
(* no result has its own msgid as msgstr.  (The backend returns no empty   *)
(* string here, so that only the number of results is at stake.)           *)
(***************************************************************************)
C2_EveryEntryAssigned ==
    (/\ pc = "done"
     /\ untranslated # <<>>
     /\ \A k \in 1..Len(calls) :
           \A j \in 1..Len(calls[k].translations) :
               calls[k].translations[j] # <<>>) =>
        \A n \in 1..Len(untranslated) :
            LET e == entries[untranslated[n]]
                call == calls[((n - 1) \div batch_size) + 1]
                at == ((n - 1) % batch_size) + 1
            IN  /\ e.msgstr # <<>>
                /\ at > Len(call.translations) => e.msgstr = e.msgid

C4_NothingToTranslate ==
    (pc # "start" /\ untranslated = <<>>) =>
        /\ pc = "done"
        /\ result = [returned |-> TRUE, translated |-> 0, total |-> Len(entries)]
        /\ Len(entries) = Len(Parse(ext, disk0))
        /\ calls = <<>>
        /\ saves = 0
        /\ disk = disk0

\* a file with entries, none of them untranslated, run without dry_run
C4_Witness ==
    /\ pc = "done"
    /\ untranslated = <<>>
    /\ Len(entries) >= 2
    /\ ~dry_run
    /\ result.returned

(***************************************************************************)
(* C5: with dry_run, save is never called and the file stays as it was,    *)
(* while the backend is called for every group; and the returned counts    *)
(* are fixed by the entries and the backend's results alone (translated =  *)
(* the number of positions that got a result, total = the number of        *)
(* entries), hence the same with dry_run as without.                       *)
(***************************************************************************)
C5_DryRun ==
    LET N == Len(untranslated)
        gotResult(n) ==
            ((n - 1) % batch_size) + 1
                <= Len(calls[((n - 1) \div batch_size) + 1].translations)
    IN  /\ dry_run => (saves = 0 /\ disk = disk0)
        /\ (pc = "done" /\ N > 0) =>
              /\ (Len(calls) - 1) * batch_size < N
              /\ N <= Len(calls) * batch_size
              /\ result.returned
              /\ result.translated = Cardinality({n \in 1..N : gotResult(n)})
              /\ result.total = Len(entries)

\* a dry run of two groups that assigned translations
C5_Witness ==
    /\ pc = "done"
    /\ dry_run
    /\ Len(calls) = 2
    /\ result.translated >= 2
    /\ \E k \in 1..Len(entries) : entries[k] # Parse(ext, disk0)[k]
    /\ disk = disk0

(***************************************************************************)
(* C6: parsing, saving and parsing again yields the entries of the first   *)
(* parse: the same number, in the same order, with the same msgid, msgstr, *)
(* msgctxt, flags and comments.                                            *)
(***************************************************************************)
C6_ParseSaveParse ==
    po.pc = "reparsed" => po.reparsed = po.parsed

(***************************************************************************)
(* C7: _escape(_unescape(x)) = x for every well-formed on-disk string x.   *)
(***************************************************************************)
C7_EscapeUnescape ==
    codec.pc = "raw_round_trip" => codec.z = codec.x

(***************************************************************************)
(* C8 as claimed: needs_translation is false for an empty msgid, false for *)
(* a non-empty msgstr without the 'unfinished' flag, false for a 'fuzzy'   *)
(* entry, and true for every other entry.                                  *)
(***************************************************************************)
C8_NeedsTranslationClaimed ==
    \A k \in 1..Len(entries) :
        LET e == entries[k]
        IN  needs_translation(e)
              = ~(\/ e.msgid = <<>>
                  \/ (e.msgstr # <<>> /\ ~HasFlag(e, Unfinished))
                  \/ HasFlag(e, Fuzzy))

(***************************************************************************)
(* C8 amended: needs_translation is false for an empty msgid, false for a  *)
(* non-empty msgstr (with or without the 'unfinished' flag), false for a   *)
(* 'fuzzy' entry, and true for every other entry.                          *)
(***************************************************************************)
C8_NeedsTranslation ==
    \A k \in 1..Len(entries) :
        LET e == entries[k]
        IN  needs_translation(e)
              = ~(\/ e.msgid = <<>>
                  \/ e.msgstr # <<>>
                  \/ HasFlag(e, Fuzzy))

\* an 'unfinished' entry with a translation, a 'fuzzy' entry without one
\* and an entry that needs translation have all been parsed
C8_Witness ==
    \E k \in 1..Len(entries) :
          /\ HasFlag(entries[k], Unfinished)
          /\ entries[k].msgid # <<>>
          /\ entries[k].msgstr # <<>>
          /\ ~needs_translation(entries[k])
          /\ \E n \in 1..Len(entries) : needs_translation(entries[n])

(***************************************************************************)
(* C9: TSFile.get_untranslated returns, in file order, exactly the entries *)
(* that need translation or are 'unfinished': a message whose translation  *)
(* has type="unfinished" is returned even with a non-empty text, one with  *)
(* a non-empty text and no such attribute is not.                          *)
(***************************************************************************)
C9_TSUntranslated ==
    (ext = "ts" /\ pc # "start") =>
        LET parsed == TSParse(disk0)
            returned(k) == \E n \in 1..Len(untranslated) : untranslated[n] = k
        IN  /\ \A n \in 1..Len(untranslated) : untranslated[n] \in 1..Len(disk0)
            /\ \A n \in 1..(Len(untranslated) - 1) :
                  untranslated[n] < untranslated[n + 1]
            /\ \A k \in 1..Len(disk0) :
                  /\ returned(k) <=> (\/ needs_translation(parsed[k])
                                      \/ HasFlag(parsed[k], Unfinished))
                  /\ (disk0[k].hasTr /\ disk0[k].type = "unfinished")
                        => returned(k)
                  /\ (/\ disk0[k].hasTr
                      /\ disk0[k].text # <<>>
                      /\ disk0[k].type # "unfinished") => ~returned(k)

\* an 'unfinished' message with a text is returned after a translated
\* message that is not
C9_Witness ==
    /\ ext = "ts"
    /\ pc = "batch"
    /\ calls = <<>>
    /\ Len(disk0) = 3
    /\ disk0[1].text # <<>> /\ disk0[1].type = "none"
    /\ disk0[2].text # <<>> /\ disk0[2].type = "unfinished"
    /\ untranslated = <<2, 3>>

C11_BlocksKept ==
    po.pc = "saved" =>
        LET blocks == SelectSeq(po.doc, LAMBDA b : b # <<>>)
            comments(b) == SelectSeq(b, LAMBDA l : l.k = "comment")
        IN  /\ Len(po.saved) = Len(blocks)
            /\ \A k \in 1..Len(blocks) :
                  comments(po.saved[k]) = comments(blocks[k])

(***************************************************************************)
(* C20: POFile reads back every value it writes: for every logical string  *)
(* s, _unescape(_escape(s)) = s.                                           *)
(***************************************************************************)
C20_UnescapeEscape == codec.pc = "logical_round_trip" => codec.z = codec.x

(***************************************************************************)
(* C19: in every block that gives an entry, each of msgctxt, msgid and     *)
(* msgstr is the unescaped content of the last keyword line for it         *)
(* (with or without an [N] index) followed by the unescaped content of     *)
(* every bare quoted line between that line and the next keyword line.     *)
(***************************************************************************)
C19_KeywordAndContinuation ==
    po.pc = "parsed" =>
        \A b \in {po.doc[k] : k \in 1..Len(po.doc)} :
            LET keys(f) == {j \in 1..Len(b) : b[j].k = "key" /\ b[j].key = f}
                last(f) == CHOOSE j \in keys(f) : \A m \in keys(f) : m <= j
                stop(j) == LET later == {m \in (j+1)..Len(b) : b[m].k = "key"}
                           IN  IF later = {} THEN Len(b) + 1
                               ELSE CHOOSE m \in later : \A n \in later : m <= n
                field(f) ==
                    LET j == last(f)
                        rest == SelectSeq(SubSeq(b, j + 1, stop(j) - 1),
                                          LAMBDA l : l.k = "cont")
                    IN  unescape(b[j].text)
                        \o Join([m \in 1..Len(rest) |-> unescape(rest[m].text)], <<>>)
                e == parse_block(b)
            IN  e # <<>> =>
                    /\ keys("msgctxt") # {} => e[1].msgctxt = field("msgctxt")
                    /\ keys("msgid") # {} => e[1].msgid = field("msgid")
                    /\ keys("msgstr") # {} => e[1].msgstr = field("msgstr")

(***************************************************************************)
(* C12: TSFile.save leaves every message the driver did not modify as it   *)
(* was parsed: the saved tree has the same messages in the same order,     *)
(* and a message whose entry was not among the untranslated ones keeps     *)
(* its translation text and its type attribute.                            *)
(***************************************************************************)
C12_TSUntouchedKept ==
    (ext = "ts" /\ saves > 0) =>
        /\ Len(disk) = Len(disk0)
        /\ \A k \in 1..Len(disk) :
              /\ disk[k].ctx = disk0[k].ctx
              /\ disk[k].source = disk0[k].source
              /\ disk[k].hasTr = disk0[k].hasTr
              /\ (\A j \in 1..Len(untranslated) : untranslated[j] # k) =>
                    /\ disk[k].text = disk0[k].text
                    /\ disk[k].type = disk0[k].type

(***************************************************************************)
(* C17: a run of translate_file that is not a dry run and made k >= 1      *)
(* backend calls produced the events call, assign, pause, ..., call,       *)
(* assign, save: a pause after each group but the last, one save, after    *)
(* the last group; and at no time is a save followed by another event.     *)
(***************************************************************************)
C17_EventOrder ==
    /\ \A j \in 1..Len(events) :
          events[j] = "save" => (j = Len(events) /\ pc = "done")
    /\ (pc = "done" /\ ~dry_run /\ Len(calls) >= 1) =>
          LET k == Len(calls)
          IN  /\ Len(events) = 3 * k
              /\ \A j \in 1..k :
                    /\ events[3 * j - 2] = "call"
                    /\ events[3 * j - 1] = "assign"
                    /\ events[3 * j] = IF j < k THEN "pause" ELSE "save"

\* two groups: one pause between them, none before the save
C17_Witness ==
    /\ pc = "done"
    /\ ~dry_run
    /\ Len(calls) = 2
    /\ events = <<"call", "assign", "pause", "call", "assign", "save">>

(***************************************************************************)
(* SpecMain: the loop of main over the files find_files returned           *)
(***************************************************************************)
MaxFiles == 3

\* what translate_file does with one file: the lower-cased suffix of its
\* path, whether reading or processing it raises, and the counts it
\* returns otherwise
File(e, raises, translated, total) ==
    [ext |-> e, raises |-> raises, translated |-> translated, total |-> total]

\* find_files globs '*.po' and '*.ts': a file named '.po' is found and has
\* no suffix; a directory named 'd.po' or a corrupt .ts file raises
Files ==
    {File("", FALSE, 0, 0),
     File("po", TRUE, 0, 0),
     File("ts", TRUE, 0, 0),
     File("po", FALSE, 1, 2),
     File("ts", FALSE, 0, 1)}

\* translate_file as the loop sees it (lines 659-664, 672, 729-737)
translate_file(f) ==
    IF f.ext \notin {"po", "ts"} THEN [kind |-> "error", translated |-> 0, total |-> 0]
    ELSE IF f.raises THEN [kind |-> "raised", translated |-> 0, total |-> 0]
    ELSE [kind |-> "result", translated |-> f.translated, total |-> f.total]

MainInit ==
    /\ main \in [pc : {"loop"},
                 files : SeqsUpTo(Files, MaxFiles) \ {<<>>},
                 file_idx : {0},
                 attempted : {<<>>},
                 total_translated : {0},
                 total_entries : {0}]
    /\ codec = CodecIdle
    /\ po = PoIdle
    /\ DriverIdle
    /\ tb = TbIdle
    /\ ts = TsIdle
    /\ xlf = XlfIdle

\* lines 900-902: the result carries 'error'
MainErrorResult ==
    /\ main.pc = "loop"
    /\ main.file_idx < Len(main.files)
    /\ translate_file(main.files[main.file_idx + 1]).kind = "error"
    /\ main' = [main EXCEPT !.file_idx = @ + 1,
                            !.attempted = Append(@, main.file_idx + 1)]
    /\ UNCHANGED <<codec, po, driverVars, tb, ts, xlf>>

MainException_aborts ==
    /\ main.pc = "loop"
    /\ main.file_idx < Len(main.files)
    /\ translate_file(main.files[main.file_idx + 1]).kind = "raised"
    /\ main' = [main EXCEPT !.pc = "done",
                            !.file_idx = @ + 1,
                            !.attempted = Append(@, main.file_idx + 1)]
    /\ UNCHANGED <<codec, po, driverVars, tb, ts, xlf>>

\* lines 912-914: translate_file raised, the loop reports and goes on
MainException ==
    /\ main.pc = "loop"
    /\ main.file_idx < Len(main.files)
    /\ translate_file(main.files[main.file_idx + 1]).kind = "raised"
    /\ main' = [main EXCEPT !.file_idx = @ + 1,
                            !.attempted = Append(@, main.file_idx + 1)]
    /\ UNCHANGED <<codec, po, driverVars, tb, ts, xlf>>

\* lines 903-910: the counts of the file are added to the totals
MainResult ==
    /\ main.pc = "loop"
    /\ main.file_idx < Len(main.files)
    /\ LET r == translate_file(main.files[main.file_idx + 1])
       IN  /\ r.kind = "result"
           /\ main' = [main EXCEPT !.file_idx = @ + 1,
                                   !.attempted = Append(@, main.file_idx + 1),
                                   !.total_translated = @ + r.translated,
                                   !.total_entries = @ + r.total]
    /\ UNCHANGED <<codec, po, driverVars, tb, ts, xlf>>

\* line 918: the loop is over
MainSummary ==
    /\ main.pc = "loop"
    /\ main.file_idx = Len(main.files)
    /\ main' = [main EXCEPT !.pc = "done"]
    /\ UNCHANGED <<codec, po, driverVars, tb, ts, xlf>>

MainNext == MainErrorResult \/ MainException \/ MainResult \/ MainSummary

SpecMain == MainInit /\ [][MainNext]_vars

(***************************************************************************)
(* C13: the loop of main attempts every found file once, in list order;    *)
(* a file with an unsupported suffix and a file that raises add nothing    *)
(* to the totals and the loop goes on with the next file.                  *)
(***************************************************************************)
C13_EveryFileAttempted ==
    main.pc # "idle" =>
        LET good(k) == translate_file(main.files[k]).kind = "result"
            translated[n \in 0..Len(main.files)] ==
                IF n = 0 THEN 0
                ELSE translated[n - 1]
                     + (IF good(n) THEN main.files[n].translated ELSE 0)
            total[n \in 0..Len(main.files)] ==
                IF n = 0 THEN 0
                ELSE total[n - 1] + (IF good(n) THEN main.files[n].total ELSE 0)
        IN  /\ main.attempted = [k \in 1..main.file_idx |-> k]
            /\ main.file_idx <= Len(main.files)
            /\ main.pc = "done" => main.file_idx = Len(main.files)
            /\ main.total_translated = translated[main.file_idx]
            /\ main.total_entries = total[main.file_idx]

\* a run that met an unsupported file, then a raising file, then a good one
C13_Witness ==
    /\ main.pc = "done"
    /\ Len(main.files) = 3
    /\ translate_file(main.files[1]).kind = "error"
    /\ translate_file(main.files[2]).kind = "raised"
    /\ translate_file(main.files[3]).kind = "result"
    /\ main.attempted = <<1, 2, 3>>
    /\ main.total_translated = main.files[3].translated
    /\ main.total_entries = 2

(***************************************************************************)
(* SpecBackend: one call of translate_batch on a Translator                *)
(***************************************************************************)
MaxTexts == 2

\* a value of the running program: a str, or what json.loads gives for a
\* null or a number
Str(s) == [t |-> "str", v |-> s]
NotStr == [t |-> "null", v |-> <<>>]
NoValue == [t |-> "missing", v |-> <<>>]

TextLists == SeqsUpTo({Str(<<"a">>), Str(<<"b">>)}, MaxTexts)

\* one line of the content of a chat response: the number before the dot
\* (0: the line does not start with digits and a dot) and what follows it
NumberedLine(num, text) == [num |-> num, text |-> text]
ResponseLines ==
    {NumberedLine(num, text) : num \in 0..MaxTexts, text \in {<<"x">>, <<>>}}

\* what urlopen and json.loads give: an exception, or the payload
Failure == [kind |-> "failure", body |-> <<>>]
Payload(body) == [kind |-> "payload", body |-> body]

\* OpenAI, Anthropic: the lines of the message content
ChatResponses ==
    {Failure} \cup {Payload(ls) : ls \in SeqsUpTo(ResponseLines, MaxTexts + 1)}

\* DeepL, Google Cloud: the objects of the translations array, by the value
\* of their text field
ListResponses ==
    {Failure} \cup {Payload(vs) : vs \in SeqsUpTo({Str(<<"x">>), NotStr, NoValue},
                                                   MaxTexts + 1)}

\* Translator.translate: the value it returns, or NoValue when it raises
TranslateOutcomes == {Str(<<"x">>), Str(<<>>), NoValue}

Call(backend, texts, target_lang, response) ==
    [pc |-> "call", backend |-> backend, texts |-> texts,
     source_lang |-> "en", target_lang |-> target_lang,
     response |-> response, result |-> <<>>, raised |-> FALSE, calls |-> <<>>]

TbInit ==
    /\ tb \in {Call(b, texts, "sv", r) :
                  b \in {"openai", "anthropic"}, texts \in TextLists,
                  r \in ChatResponses}
              \cup {Call(b, texts, "sv", r) :
                  b \in {"deepl", "google"}, texts \in TextLists,
                  r \in ListResponses}
              \cup UNION {{Call("default", texts, tl, Payload(r)) :
                              tl \in {"sv", "de"},
                              r \in [1..Len(texts) -> TranslateOutcomes]} :
                          texts \in TextLists}
    /\ codec = CodecIdle
    /\ po = PoIdle
    /\ DriverIdle
    /\ main = MainIdle
    /\ ts = TsIdle
    /\ xlf = XlfIdle

\* lines 327-333: re.match(r'^\d+\.\s*(.+)$', line.strip()), group 1 of
\* every line that matches, in the order of the lines
ParseNumbered(lines) ==
    LET matched == SelectSeq(lines, LAMBDA l : l.num # 0 /\ l.text # <<>>)
    IN  [k \in 1..Len(matched) |-> Str(matched[k].text)]

\* lines 335-337: while len(translations) < len(texts):
\*                    translations.append(texts[len(translations)])
Pad(translations, texts) ==
    IF Len(translations) < Len(texts)
    THEN translations \o SubSeq(texts, Len(translations) + 1, Len(texts))
    ELSE translations

\* line 339: translations[:len(texts)]
Truncate(translations, texts) ==
    SubSeq(translations, 1, Min(Len(translations), Len(texts)))

\* lines 322-343 and 389-407: the try block of the chat backends
ChatBatch(texts, response) ==
    IF texts = <<>> THEN <<>>
    ELSE IF response.kind = "failure" THEN texts
    ELSE Truncate(Pad(ParseNumbered(response.body), texts), texts)

\* lines 492-506 and 585-598: the try block of the list backends; an object
\* without the text key raises KeyError inside the try
ListBatch(texts, response) ==
    IF texts = <<>> THEN <<>>
    ELSE IF response.kind = "failure" THEN texts
    ELSE IF \E k \in 1..Len(response.body) : response.body[k] = NoValue THEN texts
    ELSE Truncate(Pad(response.body, texts), texts)

OpenAITranslateBatch ==
    /\ tb.pc = "call"
    /\ tb.backend = "openai"
    /\ tb' = [tb EXCEPT !.pc = "returned",
                        !.result = ChatBatch(tb.texts, tb.response)]
    /\ UNCHANGED <<codec, po, driverVars, main, ts, xlf>>

AnthropicTranslateBatch ==
    /\ tb.pc = "call"
    /\ tb.backend = "anthropic"
    /\ tb' = [tb EXCEPT !.pc = "returned",
                        !.result = ChatBatch(tb.texts, tb.response)]
    /\ UNCHANGED <<codec, po, driverVars, main, ts, xlf>>

DeepLTranslateBatch ==
    /\ tb.pc = "call"
    /\ tb.backend = "deepl"
    /\ tb' = [tb EXCEPT !.pc = "returned",
                        !.result = ListBatch(tb.texts, tb.response)]
    /\ UNCHANGED <<codec, po, driverVars, main, ts, xlf>>

GoogleCloudTranslateBatch ==
    /\ tb.pc = "call"
    /\ tb.backend = "google"
    /\ tb' = [tb EXCEPT !.pc = "returned",
                        !.result = ListBatch(tb.texts, tb.response)]
    /\ UNCHANGED <<codec, po, driverVars, main, ts, xlf>>

TranslateCalls_swapped(texts, source_lang, target_lang) ==
    [k \in 1..Len(texts) |->
        [text |-> texts[k], source_lang |-> target_lang, target_lang |-> source_lang]]

\* line 248: self.translate(text, source_lang, target_lang), for text in texts
TranslateCalls(texts, source_lang, target_lang) ==
    [k \in 1..Len(texts) |->
        [text |-> texts[k], source_lang |-> source_lang, target_lang |-> target_lang]]

\* lines 244-250: the default translate_batch; a translate that raises ends
\* the loop and the exception leaves translate_batch
DefaultTranslateBatch ==
    /\ tb.pc = "call"
    /\ tb.backend = "default"
    /\ LET outcomes == tb.response.body
           raising == {k \in 1..Len(tb.texts) : outcomes[k] = NoValue}
           n == IF raising = {} THEN Len(tb.texts)
                ELSE CHOOSE k \in raising : \A m \in raising : k <= m
       IN  tb' = [tb EXCEPT
                    !.pc = "returned",
                    !.calls = TranslateCalls(SubSeq(tb.texts, 1, n),
                                             tb.source_lang, tb.target_lang),
                    !.raised = raising # {},
                    !.result = IF raising = {} THEN outcomes ELSE <<>>]
    /\ UNCHANGED <<codec, po, driverVars, main, ts, xlf>>

TbNext ==
    \/ OpenAITranslateBatch
    \/ AnthropicTranslateBatch
    \/ DeepLTranslateBatch
    \/ GoogleCloudTranslateBatch
    \/ DefaultTranslateBatch

SpecBackend == TbInit /\ [][TbNext]_vars

(***************************************************************************)
(* C14: translate_batch of the OpenAI, Anthropic, DeepL and Google Cloud   *)
(* backends returns, for every response, a list of len(texts) strings:     *)
(* the texts themselves when the call failed, and otherwise the results    *)
(* obtained, cut to len(texts), followed by the texts at the positions     *)
(* for which no result was obtained.                                       *)
(***************************************************************************)
C14_BatchReconciled ==
    (tb.pc = "returned" /\ tb.backend # "default") =>
        LET n == Len(tb.texts)
            body == tb.response.body
            obtained == IF tb.backend \in {"openai", "anthropic"}
                        THEN ParseNumbered(body) ELSE body
            failed == \/ tb.response.kind = "failure"
                      \/ \E k \in 1..Len(body) : body[k] = NoValue
        IN  /\ ~tb.raised
            /\ Len(tb.result) = n
            /\ \A k \in 1..n : tb.result[k].t = "str"
            /\ failed => tb.result = tb.texts
            /\ ~failed =>
                  \A k \in 1..n :
                      tb.result[k] = IF k <= Len(obtained) THEN obtained[k]
                                     ELSE tb.texts[k]

(***************************************************************************)
(* C15: the default translate_batch calls translate once per text, in      *)
(* order, with the given languages, and returns the results in that        *)
(* order: as many as there are texts, the k-th being what translate        *)
(* returned for the k-th text.                                             *)
(***************************************************************************)
C15_DefaultBatch ==
    (tb.pc = "returned" /\ tb.backend = "default" /\ ~tb.raised) =>
        /\ Len(tb.calls) = Len(tb.texts)
        /\ \A k \in 1..Len(tb.texts) :
              /\ tb.calls[k].text = tb.texts[k]
              /\ tb.calls[k].source_lang = tb.source_lang
              /\ tb.calls[k].target_lang = tb.target_lang
        /\ Len(tb.result) = Len(tb.texts)
        /\ \A k \in 1..Len(tb.texts) : tb.result[k] = tb.response.body[k]

\* two different texts, two different results
C15_Witness ==
    /\ tb.pc = "returned"
    /\ tb.backend = "default"
    /\ tb.texts = <<Str(<<"a">>), Str(<<"b">>)>>
    /\ tb.result = <<Str(<<"x">>), Str(<<>>)>>
    /\ Len(tb.calls) = 2
    /\ tb.calls[2].text = Str(<<"b">>)
    /\ tb.calls[2].target_lang = "de"

(***************************************************************************)
(* SpecXLIFF: the XLIFF adapter: parse, get_untranslated, an assignment,   *)
(* save, parse again.  A document is the sequence of its trans-unit        *)
(* elements.                                                               *)
(***************************************************************************)
MaxTransUnits == 2

TransUnit(source, hasTarget, target) ==
    [source |-> source, hasTarget |-> hasTarget, target |-> target]

TransUnits ==
    {TransUnit(s, FALSE, <<>>) : s \in {<<"a">>, <<"b">>}}
    \cup {TransUnit(s, TRUE, t) : s \in {<<"a">>, <<"b">>}, t \in {<<>>, <<"y">>}}

\* parse: one entry per trans-unit, a missing target read as empty, each
\* entry referring to its unit
XLIFFParse(doc) ==
    [k \in 1..Len(doc) |->
        TranslationEntry(doc[k].source,
                         IF doc[k].hasTarget THEN doc[k].target ELSE <<>>,
                         <<>>, <<>>, <<>>, k)]

\* the entries that still need translation
XLIFFGetUntranslated(es) ==
    SelectSeq(Indices(es), LAMBDA k : needs_translation(es[k]))

XLIFFSaveUnit_no_create(unit, e) ==
    IF unit.hasTarget THEN [unit EXCEPT !.target = e.msgstr] ELSE unit

\* save: the translated text of a modified entry is written into the
\* target node of its unit, which is created if absent
XLIFFSaveUnit(unit, e) ==
    IF e.msgstr = (IF unit.hasTarget THEN unit.target ELSE <<>>) THEN unit
    ELSE [unit EXCEPT !.hasTarget = TRUE, !.target = e.msgstr]

XLIFFSave(doc, es) == [k \in 1..Len(doc) |-> XLIFFSaveUnit(doc[k], es[k])]

XlfInit ==
    /\ xlf \in [pc : {"file"},
                suffix : {"xliff", "xlf"},
                doc : SeqsUpTo(TransUnits, MaxTransUnits) \ {<<>>},
                entries : {<<>>},
                untranslated : {<<>>},
                assigned : {0},
                saved : {<<>>},
                reparsed : {<<>>}]
    /\ codec = CodecIdle
    /\ po = PoIdle
    /\ DriverIdle
    /\ main = MainIdle
    /\ tb = TbIdle
    /\ ts = TsIdle

\* XLIFFFile(path), get_untranslated()
XlfParse ==
    /\ xlf.pc = "file"
    /\ xlf' = [xlf EXCEPT !.pc = "parsed",
                          !.entries = XLIFFParse(xlf.doc),
                          !.untranslated = XLIFFGetUntranslated(XLIFFParse(xlf.doc))]
    /\ UNCHANGED <<codec, po, driverVars, main, tb, ts>>

\* entries[k].msgstr = text
XlfAssign ==
    /\ xlf.pc = "parsed"
    /\ \E k \in 1..Len(xlf.entries), text \in {<<"x">>, <<>>} :
          xlf' = [xlf EXCEPT !.pc = "assigned",
                             !.assigned = k,
                             !.entries[k].msgstr = text]
    /\ UNCHANGED <<codec, po, driverVars, main, tb, ts>>

\* save()
XlfSave ==
    /\ xlf.pc = "assigned"
    /\ xlf' = [xlf EXCEPT !.pc = "saved",
                          !.saved = XLIFFSave(xlf.doc, xlf.entries)]
    /\ UNCHANGED <<codec, po, driverVars, main, tb, ts>>

\* XLIFFFile(path) on the saved file
XlfReparse ==
    /\ xlf.pc = "saved"
    /\ xlf' = [xlf EXCEPT !.pc = "reparsed",
                          !.reparsed = XLIFFParse(xlf.saved)]
    /\ UNCHANGED <<codec, po, driverVars, main, tb, ts>>

XlfNext == XlfParse \/ XlfAssign \/ XlfSave \/ XlfReparse

SpecXLIFF == XlfInit /\ [][XlfNext]_vars

MaxTsChildren == 2
MaxTsContexts == 2

Elem(tag, hasName, name, hasSource, source, hasTr, text, type, children) ==
    [tag |-> tag, hasName |-> hasName, name |-> name,
     hasSource |-> hasSource, source |-> source,
     hasTr |-> hasTr, text |-> text, type |-> type, children |-> children]

\* <message>, with or without <source> and <translation>
MessageElem(hasSource, source, hasTr, text, type) ==
    Elem("message", FALSE, <<>>, hasSource, source, hasTr, text, type, <<>>)
\* <context>, with or without <name>
ContextElem(hasName, name, children) ==
    Elem("context", hasName, name, FALSE, <<>>, FALSE, <<>>, "none", children)
\* an element with another tag
OtherElem(children) ==
    Elem("other", FALSE, <<>>, FALSE, <<>>, FALSE, <<>>, "none", children)

MessageElems ==
    {MessageElem(TRUE, <<"a">>, TRUE, <<"x">>, "none"),
     MessageElem(TRUE, <<"b">>, TRUE, <<>>, "unfinished"),
     MessageElem(FALSE, <<>>, FALSE, <<>>, "none")}

\* what a context holds: messages, a context of its own, an element that
\* wraps a message
InnerElems ==
    MessageElems
    \cup {ContextElem(TRUE, <<"d">>, <<m>>) : m \in MessageElems}
    \cup {OtherElem(<<MessageElem(TRUE, <<"a">>, TRUE, <<"x">>, "none")>>)}

\* the children of the root: contexts, a context inside another element, a
\* message outside every context
TopElems ==
    {ContextElem(TRUE, <<"c">>, ch) : ch \in SeqsUpTo(InnerElems, MaxTsChildren)}
    \cup {ContextElem(FALSE, <<>>, <<m>>) : m \in MessageElems}
    \cup {OtherElem(<<ContextElem(TRUE, <<"d">>,
                                  <<MessageElem(TRUE, <<"b">>, TRUE, <<>>, "unfinished")>>)>>),
          MessageElem(TRUE, <<"a">>, TRUE, <<"x">>, "none")}

TsInit ==
    /\ ts \in [pc : {"file"},
               doc : SeqsUpTo(TopElems, MaxTsContexts),
               entries : {<<>>}]
    /\ codec = CodecIdle
    /\ po = PoIdle
    /\ DriverIdle
    /\ main = MainIdle
    /\ tb = TbIdle
    /\ xlf = XlfIdle

\* the element at a path
RECURSIVE ElemAt(_, _)
ElemAt(children, path) ==
    IF Len(path) = 1 THEN children[path[1]]
    ELSE ElemAt(children[path[1]].children, Tail(path))

\* the paths of all elements below the root
RECURSIVE Paths(_, _)
Paths(children, path) ==
    UNION {{path \o <<k>>} \cup Paths(children[k].children, path \o <<k>>) :
              k \in 1..Len(children)}

\* Element.findall('.//tag'): the elements with that tag below an element
\* at any depth, in document order (from child k on)
RECURSIVE FindAll(_, _, _, _)
FindAll(children, path, k, tag) ==
    IF k > Len(children) THEN <<>>
    ELSE (IF children[k].tag = tag THEN <<path \o <<k>>>> ELSE <<>>)
         \o FindAll(children[k].children, path \o <<k>>, 1, tag)
         \o FindAll(children, path, k + 1, tag)

\* line 193: self.root.findall('.//context')
FindAllContext(doc) == FindAll(doc, <<>>, 1, "context")

FindMessage_any_depth(context, path) ==
    FindAll(context.children, path, 1, "message")

\* line 196: context.findall('message'): the children of the context that
\* are message elements, in order
FindMessage(context, path) ==
    LET direct == SelectSeq([k \in 1..Len(context.children) |-> k],
                            LAMBDA k : context.children[k].tag = "message")
    IN  [j \in 1..Len(direct) |-> path \o <<direct[j]>>]

\* lines 194-214: the entries of one context
ContextEntries(doc, cpath) ==
    LET context == ElemAt(doc, cpath)
        context_name == IF context.hasName THEN context.name ELSE <<>>
        messages == FindMessage(context, cpath)
    IN  [j \in 1..Len(messages) |->
            LET message == ElemAt(doc, messages[j])
            IN  TranslationEntry(
                    IF message.hasSource THEN message.source ELSE <<>>,
                    IF message.hasTr THEN message.text ELSE <<>>,
                    context_name,
                    <<>>,
                    IF message.hasTr /\ message.type = "unfinished"
                    THEN <<Unfinished>> ELSE <<>>,
                    messages[j])]

\* lines 193-215: the loop over the contexts
RECURSIVE ParseContexts(_, _)
ParseContexts(doc, contexts) ==
    IF contexts = <<>> THEN <<>>
    ELSE ContextEntries(doc, Head(contexts)) \o ParseContexts(doc, Tail(contexts))

\* TSFile._parse
TsParse ==
    /\ ts.pc = "file"
    /\ ts' = [ts EXCEPT !.pc = "parsed",
                        !.entries = ParseContexts(ts.doc,
                                                  FindAllContext(ts.doc))]
    /\ UNCHANGED <<codec, po, driverVars, main, tb, xlf>>

TsNext == TsParse

SpecTS == TsInit /\ [][TsNext]_vars

(***************************************************************************)
(* C18 as claimed: TSFile parsing gives exactly one entry, in document     *)
(* order, for every message element below a context element at any depth.  *)
(***************************************************************************)
C18_ParseClaimed ==
    ts.pc = "parsed" =>
        LET Before(p, q) ==
                \/ Len(p) < Len(q) /\ SubSeq(q, 1, Len(p)) = p
                \/ \E h \in 1..Min(Len(p), Len(q)) :
                      SubSeq(p, 1, h - 1) = SubSeq(q, 1, h - 1) /\ p[h] < q[h]
            under(p) == \E h \in 1..(Len(p) - 1) :
                            ElemAt(ts.doc, SubSeq(p, 1, h)).tag = "context"
            messages == {p \in Paths(ts.doc, <<>>) :
                            ElemAt(ts.doc, p).tag = "message" /\ under(p)}
        IN  /\ {ts.entries[k].elem : k \in 1..Len(ts.entries)} = messages
            /\ Len(ts.entries) = Cardinality(messages)
            /\ \A m, n \in 1..Len(ts.entries) :
                  m < n => Before(ts.entries[m].elem, ts.entries[n].elem)

(***************************************************************************)
(* C18 as amended: TSFile parsing gives exactly one entry for every        *)
(* message element that is a child of a context element found below the    *)
(* root at any depth; the entries of one context are in the order of its   *)
(* messages, the contexts in document order; msgctxt is the name of that   *)
(* context, msgid the source, msgstr the text of the translation element   *)
(* (each empty when absent), and the entry refers to its message element.  *)
(***************************************************************************)
C18_ParseDirectMessages ==
    ts.pc = "parsed" =>
        LET Before(p, q) ==
                \/ Len(p) < Len(q) /\ SubSeq(q, 1, Len(p)) = p
                \/ \E h \in 1..Min(Len(p), Len(q)) :
                      SubSeq(p, 1, h - 1) = SubSeq(q, 1, h - 1) /\ p[h] < q[h]
            Parent(p) == SubSeq(p, 1, Len(p) - 1)
            messages == {p \in Paths(ts.doc, <<>>) :
                            /\ ElemAt(ts.doc, p).tag = "message"
                            /\ Len(p) >= 2
                            /\ ElemAt(ts.doc, Parent(p)).tag = "context"}
        IN  /\ {ts.entries[k].elem : k \in 1..Len(ts.entries)} = messages
            /\ Len(ts.entries) = Cardinality(messages)
            /\ \A k \in 1..Len(ts.entries) :
                  LET e == ts.entries[k]
                      message == ElemAt(ts.doc, e.elem)
                      context == ElemAt(ts.doc, Parent(e.elem))
                  IN  /\ e.msgctxt = (IF context.hasName THEN context.name ELSE <<>>)
                      /\ e.msgid = (IF message.hasSource THEN message.source ELSE <<>>)
                      /\ e.msgstr = (IF message.hasTr THEN message.text ELSE <<>>)
            /\ \A m, n \in 1..Len(ts.entries) :
                  m < n =>
                      LET p == ts.entries[m].elem
                          q == ts.entries[n].elem
                      IN  \/ Parent(p) = Parent(q) /\ p[Len(p)] < q[Len(q)]
                          \/ Before(Parent(p), Parent(q))

\* a context holding a context and then a message: the message of the
\* outer context comes first, the message of the inner one second
C18_Witness ==
    /\ ts.pc = "parsed"
    /\ Len(ts.doc) = 1
    /\ Len(ts.entries) = 2
    /\ ts.entries[1].elem = <<1, 2>>
    /\ ts.entries[1].msgctxt = <<"c">>
    /\ ts.entries[2].elem = <<1, 1, 1>>
    /\ ts.entries[2].msgctxt = <<"d">>

(***************************************************************************)
(* C22: what the chat backends return at position k is the translation of  *)
(* a response line numbered k, or texts[k] when the response has no        *)
(* parseable line numbered k.                                              *)
(***************************************************************************)
C22_NumberedAlignment ==
    (tb.pc = "returned" /\ tb.backend \in {"openai", "anthropic"}) =>
        LET lines == tb.response.body
            given(k) == {Str(lines[m].text) : m \in
                            {h \in 1..Len(lines) :
                                lines[h].num = k /\ lines[h].text # <<>>}}
        IN  /\ Len(tb.result) = Len(tb.texts)
            /\ \A k \in 1..Len(tb.texts) :
                  IF given(k) = {} THEN tb.result[k] = tb.texts[k]
                  ELSE tb.result[k] \in given(k)

(***************************************************************************)
(* C23: when translate_batch raises in some group, translate_file ends     *)
(* with the exception: nothing is returned, save is not called, and the    *)
(* file is as it was before the run, even if earlier groups were already   *)
(* translated in memory.                                                   *)
(***************************************************************************)
C23_RaiseLeavesFile ==
    pc = "raised" =>
        /\ ~result.returned
        /\ saves = 0
        /\ \A k \in 1..Len(events) : events[k] # "save"
        /\ disk = disk0

\* the second group raised after the first had been assigned
C23_Witness ==
    /\ pc = "raised"
    /\ ~dry_run
    /\ Len(calls) = 2
    /\ ~calls[1].raised
    /\ calls[2].raised
    /\ translated_count >= 1
    /\ \E k \in 1..Len(entries) : entries[k].msgstr = <<"x">> /\ untranslated[1] = k
    /\ disk = disk0

(***************************************************************************)
(* C21: after a run that saved the file and in which every backend call    *)
(* returned a non-empty string for every text, parsing the saved file      *)
(* gives no untranslated entry (so that a second run returns at once,      *)
(* without a backend call and without saving).                             *)
(***************************************************************************)
C21_SecondRunIdle ==
    (/\ pc = "done"
     /\ saves = 1
     /\ \A c \in 1..Len(calls) :
           /\ ~calls[c].raised
           /\ Len(calls[c].translations) = Len(calls[c].texts)
           /\ \A k \in 1..Len(calls[c].translations) :
                 calls[c].translations[k] # <<>>)
    => GetUntranslated(ext, Parse(ext, disk)) = <<>>

====
